---- MODULE Spec2Model ----
(***************************************************************************)
(* A model of the reporter module (src/src/py/reporter/__init__.py): the   *)
(* tree of Reporter nodes (level gate, template rendering, fan-out to the  *)
(* delegates), the registration API, and the Beanstalk relay (the          *)
(* BeanstalkReporter producer and the BeanstalkWorker consumer).           *)
(*                                                                         *)
(* Python values are modelled as follows.  A message is a record           *)
(* [enc, text]: enc is "str" or "bytes".  A rendered line is a string.     *)
(* Non-ASCII template glyphs are replaced by ASCII ones of the same role.  *)
(* A Python list index i is the sequence index i + 1.  An exception is a   *)
(* string naming its class; "none" means the call returned.                *)
(***************************************************************************)
EXTENDS Naturals, Integers, Sequences, FiniteSets, TLC

VARIABLES
    delegates,   \* node -> its delegates list (Reporter.delegates)
    level,       \* node -> its threshold (Reporter.level)
    TEMPLATE,    \* the class attribute Reporter.TEMPLATE (a table name)
    beanstalk,   \* the relay node's self.beanstalk: "unbuilt", "None", "conn"
    brokerUp,    \* whether the beanstalkd server answers
    jobs,        \* the tube: a sequence of [body, state, replays]
    isRunning,   \* BeanstalkWorker.isRunning
    wpc,         \* the worker's thread: "idle", "loop", "iterate", "dead"
    call,        \* the last API call: what it was, its arguments, its outcome
    log,         \* what the last API call did, in order
    onlyUnique,  \* no registration on REPORTER bypassed the unique check so far
    fan,         \* a _forward whose loop another thread's calls interleave with
    pending      \* thread -> the node it found no class of and is about to add

vars == <<delegates, level, TEMPLATE, beanstalk, brokerUp, jobs, isRunning,
          wpc, call, log, onlyUnique, fan, pending>>

-----------------------------------------------------------------------------
(* Severities and constants *)

DEBUG == 0
TRACE == 1
INFO == 2
SUCCESS == 3
WARNING == 4
ERROR == 5
EXCEPTION == 6
FATAL == 7
DEFAULT_LEVEL == 2

Levels == DEBUG..FATAL

COLOR_NONE == -1
COLOR_RED == 2
COLOR_YELLOW == 7
COLOR_RED_BOLD == 12
COLOR_GREEN_BOLD == 13
COLOR_CYAN_BOLD == 16
COLOR_LIGHT_GRAY == 17

\* A template entry: its leading glyphs, and whether it has the
\* {0}|{2}|{3} slots (timestamp, component, message) or only {3}.
Entry(pre, slots) == [pre |-> pre, slots |-> slots]

TEMPLATE_COMPACT ==
    << Entry("", "3"), Entry("", "3"), Entry("", "3"), Entry("v ", "3"),
       Entry("! ", "3"), Entry("x ", "3"), Entry("# ", "3") >>

TEMPLATE_COMMAND ==
    << Entry(">>> ", "3"), Entry("--- ", "3"), Entry("    ", "3"),
       Entry(" v  ", "3"), Entry(" !  ", "3"), Entry("[!] ", "3"),
       Entry(" * ", "3"), Entry("!!! ", "3") >>

TEMPLATE_DEFAULT ==
    << Entry(">>> ", "023"), Entry("--- ", "023"), Entry(" .  ", "023"),
       Entry(" v   ", "023"), Entry("WRN ", "023"), Entry("ERR ", "023"),
       Entry(" * ", "023"), Entry("!!! ", "023") >>

TemplateNames == {"TEMPLATE_DEFAULT", "TEMPLATE_COMMAND", "TEMPLATE_COMPACT"}

Table(name) ==
    CASE name = "TEMPLATE_DEFAULT" -> TEMPLATE_DEFAULT
      [] name = "TEMPLATE_COMMAND" -> TEMPLATE_COMMAND
      [] name = "TEMPLATE_COMPACT" -> TEMPLATE_COMPACT

\* str.format on a template entry: format(timestamp, code, component, message)
Format(entry, ts, code, component, text) ==
    IF entry.slots = "023"
    THEN entry.pre \o ts \o "|" \o component \o "|" \o text
    ELSE entry.pre \o text

ensure_unicode(m) ==
    IF m.enc = "bytes" THEN [enc |-> "str", text |-> m.text] ELSE m

\* time.strftime: one instant stands for the clock
timestamp == "2021-05-04T12:00:00"

_getComponent(component) ==
    IF component = "" THEN "-" ELSE component

-----------------------------------------------------------------------------
(* The nodes *)

Nodes == {"REPORTER", "stderr", "stderr2", "errors", "hub", "relay"}

\* the runtime class of each node
Class(n) ==
    CASE n = "REPORTER" -> "Reporter"
      [] n = "hub"      -> "Reporter"
      [] n = "stderr"   -> "StderrReporter"
      [] n = "stderr2"  -> "StderrReporter"
      [] n = "errors"   -> "FileReporter"
      [] n = "relay"    -> "BeanstalkReporter"

\* errors = FileReporter("errors.log", ...): path given, so self.fd is None
FdIsNone(n) == n = "errors"

IsIn(x, seq) == \E i \in 1..Len(seq) : seq[i] = x

Range(seq) == {seq[i] : i \in 1..Len(seq)}

\* the nodes reachable from n through delegates lists (n included), in dl
RECURSIVE Reach(_, _, _)
Reach(dl, S, k) ==
    IF k = 0 THEN S
    ELSE Reach(dl, S \cup UNION {Range(dl[n]) : n \in S}, k - 1)

Descendants(dl, n) == Reach(dl, {n}, Cardinality(Nodes))

-----------------------------------------------------------------------------
(* _send and _forward.  A call yields [log, exc]: the events it caused, in  *)
(* order, and the exception that ended it ("none": it returned).            *)

\* by: the node whose _forward made the call ("api": an emission function,
\* "worker": BeanstalkWorker._process)
SendEv(by, n, l, text) ==
    [ev |-> "_send", by |-> by, node |-> n, level |-> l, text |-> text]
WriteEv(n, text)   == [ev |-> "write", node |-> n, text |-> text]
PrintEv(n, text)   == [ev |-> "print", node |-> n, text |-> text]
PutEv(n, body)     == [ev |-> "put", node |-> n, body |-> body]
RaiseEv(n, e)      == [ev |-> "raise", node |-> n, exc |-> e]

Returned(evs) == [log |-> evs, exc |-> "none"]
Raised(n, e) == [log |-> << RaiseEv(n, e) >>, exc |-> e]

\* json.dumps / json.loads: a JSON text is <<"json", value>>; any other
\* body is <<"text", characters>> and does not load.
json_dumps(value) == <<"json", value>>
json_loads(body) ==
    IF body[1] = "json" THEN [ok |-> TRUE, data |-> body[2]]
    ELSE [ok |-> FALSE, data |-> <<>>]

Dict(fields) == [kind |-> "dict", fields |-> fields]

colorByLevel ==
    << COLOR_CYAN_BOLD, COLOR_LIGHT_GRAY, COLOR_NONE, COLOR_GREEN_BOLD,
       COLOR_YELLOW, COLOR_RED, COLOR_RED_BOLD >>

Min(a, b) == IF a <= b THEN a ELSE b
Max(a, b) == IF a >= b THEN a ELSE b

getColorForLevel(l) ==
    colorByLevel[Max(0, Min(l, Len(colorByLevel) - 1)) + 1]

_colorStart(color) ==
    CASE color = COLOR_NONE       -> ""
      [] color = COLOR_LIGHT_GRAY -> "^[[0m^[[00;37m"
      [] color = COLOR_RED        -> "^[[0m^[[00;31m"
      [] color = COLOR_RED_BOLD   -> "^[[0m^[[01;31m"
      [] color = COLOR_GREEN_BOLD -> "^[[0m^[[01;32m"
      [] color = COLOR_CYAN_BOLD  -> "^[[0m^[[01;35m"
      [] color = COLOR_YELLOW     -> "^[[0m^[[00;34m"

_colorEnd(color) == IF color # COLOR_NONE THEN "^[[0m" ELSE ""

\* The part of the state a _send reads: the delegates lists, the levels,
\* the relay's connection and whether the broker answers.
World(dl, lv, conn, up) == [dl |-> dl, lv |-> lv, conn |-> conn, up |-> up]

\* FileReporter._send: the node's own gate, then the write; no _forward
FileReporter_send(w, n, l, text) ==
    IF w.lv[n] > l THEN Returned(<<>>)
    ELSE IF FdIsNone(n) THEN Raised(n, "NameError")
    ELSE Returned(<< WriteEv(n, text \o "\n") >>)

ConsoleReporter_send(w, n, l, text) ==
    LET color == getColorForLevel(l)
    IN  FileReporter_send(w, n, l, _colorStart(color) \o text \o _colorEnd(color))

\* _send without the test of self.beanstalk: put() on None
BeanstalkSendUnguarded(w, n, l, text) ==
    IF w.conn = "conn" /\ w.up
    THEN Returned(<< PutEv(n, json_dumps(Dict(
             [type |-> "reporter.Message", message |-> text, level |-> l]))) >>)
    ELSE Raised(n, IF w.conn = "conn" THEN "SocketError" ELSE "AttributeError")

\* BeanstalkReporter._send: put the job, or print the warning; no _forward
BeanstalkReporter_send(w, n, l, text) ==
    IF w.conn = "conn"
    THEN IF w.up
         THEN Returned(<< PutEv(n, json_dumps(Dict(
                  [type |-> "reporter.Message", message |-> text, level |-> l]))) >>)
         ELSE Raised(n, "SocketError")
    ELSE Returned(<< PrintEv(n, "[!] BeanstalkWorker cannot connect to beanstalkd server") >>)

RECURSIVE _send(_, _, _, _, _)
RECURSIVE _forward(_, _, _, _, _)

\* _forward that goes on with the next delegate after one raised
ForwardIsolating(w, n, l, text, i) ==
    IF i > Len(w.dl[n]) THEN Returned(<<>>)
    ELSE LET r == _send(w, n, w.dl[n][i], l, text)
             rest == _forward(w, n, l, text, i + 1)
         IN  [log |-> r.log \o rest.log,
              exc |-> IF r.exc # "none" THEN r.exc ELSE rest.exc]

\* Reporter._forward from the i-th delegate on: a delegate that raises ends it
_forward(w, n, l, text, i) ==
    IF i > Len(w.dl[n]) THEN Returned(<<>>)
    ELSE LET r == _send(w, n, w.dl[n][i], l, text)
         IN  IF r.exc # "none" THEN r
             ELSE LET rest == _forward(w, n, l, text, i + 1)
                  IN  [log |-> r.log \o rest.log, exc |-> rest.exc]

\* Reporter._send: nothing of its own, then _forward
Reporter_send(w, n, l, text) == _forward(w, n, l, text, 1)

\* n._send(level, message), dispatched on the class of n
_send(w, by, n, l, text) ==
    LET body ==
          CASE Class(n) = "Reporter" -> Reporter_send(w, n, l, text)
            [] Class(n) = "FileReporter" -> FileReporter_send(w, n, l, text)
            [] Class(n) = "StderrReporter" -> ConsoleReporter_send(w, n, l, text)
            [] Class(n) = "BeanstalkReporter" -> BeanstalkReporter_send(w, n, l, text)
    IN  [log |-> << SendEv(by, n, l, text) >> \o body.log, exc |-> body.exc]

-----------------------------------------------------------------------------
(* The emission functions Reporter.debug .. Reporter.fatal *)

Fns == {"debug", "trace", "info", "success", "warn", "warning", "error",
        "exception", "fatal"}

\* the severity each function compares with self.level
GateLevel(fn) ==
    CASE fn = "debug" -> DEBUG         [] fn = "trace" -> TRACE
      [] fn = "info" -> INFO           [] fn = "success" -> SUCCESS
      [] fn = "warn" -> WARNING        [] fn = "warning" -> WARNING
      [] fn = "error" -> ERROR         [] fn = "exception" -> EXCEPTION
      [] fn = "fatal" -> FATAL

\* the index each function takes in self.TEMPLATE
TemplateIndex(fn) == GateLevel(fn)

\* the level each function passes to self._send
SendLevel(fn) == IF fn = "success" THEN ERROR ELSE GateLevel(fn)

Gate(fn, threshold) == GateLevel(fn) >= threshold

None == [enc |-> "NoneType", text |-> ""]

EmissionReturnRendered(message, rendered) == [enc |-> "str", text |-> rendered]

\* "return message" at the end of each emission function
EmissionReturn(message, rendered) == message

\* n.fn(message, component, code): [ret, exc, log]
Emission(w, tpl, n, fn, m, component, code) ==
    IF Gate(fn, w.lv[n])
    THEN LET message == ensure_unicode(m)
             table == Table(tpl)
             i == TemplateIndex(fn)
         IN  IF i + 1 > Len(table)
             THEN [ret |-> None, exc |-> "IndexError",
                   log |-> << RaiseEv(n, "IndexError") >>]
             ELSE LET rendered == Format(table[i + 1], timestamp,
                                         IF code = "" THEN "-" ELSE code,
                                         _getComponent(component), message.text)
                      r == _send(w, "api", n, SendLevel(fn), rendered)
                  IN  [ret |-> IF r.exc = "none"
                               THEN EmissionReturn(message, rendered) ELSE None,
                       exc |-> r.exc, log |-> r.log]
    ELSE [ret |-> EmissionReturn(m, ""), exc |-> "none", log |-> <<>>]

-----------------------------------------------------------------------------
(* Bounds and inputs *)

MaxJobs == 2

\* (message, component, code) as the callers pass them: a str with both
\* labels, and a bytes message with neither
EmitArgs ==
    { << [enc |-> "str", text |-> "ping"], "svc", "E1" >>,
      << [enc |-> "bytes", text |-> "boom"], "", "" >> }

\* the levels the callers pass to setLevel and to register(level=...)
SetLevels == {WARNING, FATAL}
RegisterLevels == {WARNING}

\* the bodies of the put events of a log, as ready jobs, in order
RECURSIVE PutJobs(_)
PutJobs(evs) ==
    IF evs = <<>> THEN <<>>
    ELSE (IF Head(evs).ev = "put"
          THEN << [body |-> Head(evs).body, state |-> "ready", replays |-> 0] >>
          ELSE <<>>) \o PutJobs(Tail(evs))

-----------------------------------------------------------------------------
(* setLevel, has, register, unregister: operators on [dl, lv], the          *)
(* delegates lists and the levels                                           *)

Tree(dl, lv) == [dl |-> dl, lv |-> lv]

RECURSIVE Reporter_setLevel(_, _, _)
RECURSIVE SetLevelEach(_, _, _)

\* for _ in self.delegates: _.setLevel(level)
SetLevelEach(st, ds, l) ==
    IF ds = <<>> THEN st
    ELSE SetLevelEach(Reporter_setLevel(st, Head(ds), l), Tail(ds), l)

\* setLevel that sets the delegates' level without recursing into them
SetLevelShallow(st, n, l) ==
    Tree(st.dl, [m \in Nodes |->
                   IF m = n \/ IsIn(m, st.dl[n]) THEN l ELSE st.lv[m]])

\* n.setLevel(l): self.level = level, then every delegate in turn
Reporter_setLevel(st, n, l) ==
    SetLevelEach(Tree(st.dl, [st.lv EXCEPT ![n] = l]), st.dl[n], l)

\* has that returns from the loop at the first delegate
HasFirstOnly(st, n, reporterClass) ==
    Len(st.dl[n]) > 0 /\ Class(st.dl[n][1]) = reporterClass

\* n.has(reporterClass): a delegate of exactly that class
Reporter_has(st, n, reporterClass) ==
    \E i \in 1..Len(st.dl[n]) : Class(st.dl[n][i]) = reporterClass

\* the turn of the loop without the test "reporter not in self.delegates"
RegisterOneAgain(st, n, reporter) ==
    Tree([st.dl EXCEPT ![n] = Append(@, reporter)],
         [st.lv EXCEPT ![reporter] = st.lv[n]])

\* one turn of the loop of Reporter.register
RegisterOne(st, n, reporter) ==
    IF ~IsIn(reporter, st.dl[n])
    THEN Tree([st.dl EXCEPT ![n] = Append(@, reporter)],
              [st.lv EXCEPT ![reporter] = st.lv[n]])
    ELSE st

\* n.register(*reporters)
RECURSIVE Reporter_register(_, _, _)
Reporter_register(st, n, reporters) ==
    IF reporters = <<>> THEN st
    ELSE Reporter_register(RegisterOne(st, n, Head(reporters)), n, Tail(reporters))

\* list.remove(x): the first occurrence goes, the rest keeps its order
RECURSIVE Remove(_, _)
Remove(seq, x) ==
    IF seq = <<>> THEN <<>>
    ELSE IF Head(seq) = x THEN Tail(seq)
    ELSE << Head(seq) >> \o Remove(Tail(seq), x)

RECURSIVE Reporter_unregister(_, _, _)

\* unregister that skips a node that is not a delegate
UnregisterLenient(st, n, reporters) ==
    IF reporters = <<>> THEN [st |-> st, exc |-> "none"]
    ELSE Reporter_unregister(
             Tree([st.dl EXCEPT ![n] = Remove(@, Head(reporters))], st.lv),
             n, Tail(reporters))

\* unregister that tests all its arguments before it removes any
UnregisterAllOrNone(st, n, reporters) ==
    IF \E k \in 1..Len(reporters) : ~IsIn(reporters[k], st.dl[n])
    THEN [st |-> st, exc |-> "AssertionError"]
    ELSE UnregisterLenient(st, n, reporters)

\* n.unregister(*reporters): [st, exc]; the assert ends the loop where it fails
Reporter_unregister(st, n, reporters) ==
    IF reporters = <<>> THEN [st |-> st, exc |-> "none"]
    ELSE IF ~IsIn(Head(reporters), st.dl[n])
         THEN [st |-> st, exc |-> "AssertionError"]
         ELSE Reporter_unregister(
                  Tree([st.dl EXCEPT ![n] = Remove(@, Head(reporters))], st.lv),
                  n, Tail(reporters))

\* the loop of the module's register(*reporter, unique=...)
RECURSIVE RegisterUnique(_, _, _)
RegisterUnique(st, reporter, unique) ==
    IF reporter = <<>> THEN st
    ELSE RegisterUnique(
             IF ~unique \/ ~Reporter_has(st, "REPORTER", Class(Head(reporter)))
             THEN Reporter_register(st, "REPORTER", << Head(reporter) >>)
             ELSE st,
             Tail(reporter), unique)

-----------------------------------------------------------------------------
(* State after "import reporter": REPORTER = Reporter(), then install()     *)
(* registers a StderrReporter and sets the level to TRACE.  The other nodes *)
(* are as their constructors leave them: stderr2 = StderrReporter(),        *)
(* errors = FileReporter("errors.log", level=ERROR), hub = Reporter(),      *)
(* relay not yet constructed.                                               *)

\* the threads that call register(..., unique=True) at the same time
Threads == {"t1", "t2"}

\* no _forward is being followed
FanIdle == [pc |-> "idle", node |-> "REPORTER", i |-> 1, start |-> <<>>,
            got |-> <<>>, level |-> DEBUG, text |-> ""]

Init ==
    /\ delegates = [n \in Nodes |-> IF n = "REPORTER" THEN << "stderr" >> ELSE <<>>]
    /\ level = [n \in Nodes |->
                 CASE n = "REPORTER" -> TRACE
                   [] n = "stderr"   -> TRACE
                   [] n = "stderr2"  -> DEBUG
                   [] n = "errors"   -> ERROR
                   [] n = "hub"      -> DEFAULT_LEVEL
                   [] n = "relay"    -> DEBUG]
    /\ TEMPLATE = "TEMPLATE_DEFAULT"
    /\ beanstalk = "unbuilt"
    /\ brokerUp = TRUE
    /\ jobs = <<>>
    /\ isRunning = FALSE
    /\ wpc = "idle"
    /\ call = [op |-> "import", node |-> "REPORTER", exc |-> "none"]
    /\ log = <<>>
    /\ onlyUnique = TRUE
    /\ fan = FanIdle
    /\ pending = [t \in Threads |-> "none"]

\* n.fn(m, component, code) for one of the emission functions
Emit(n, fn, m, component, code) ==
    LET r == Emission(World(delegates, level, beanstalk, brokerUp), TEMPLATE,
                      n, fn, m, component, code)
        puts == PutJobs(r.log)
    IN  /\ Len(jobs) + Len(puts) <= MaxJobs
        /\ call' = [op |-> fn, node |-> n, message |-> m, component |-> component,
                    code |-> code, threshold |-> level[n], ret |-> r.ret,
                    exc |-> r.exc]
        /\ log' = r.log
        /\ jobs' = jobs \o puts
        /\ UNCHANGED <<fan, pending, delegates, level, TEMPLATE, beanstalk, brokerUp, isRunning,
                       wpc, onlyUnique>>

\* reporter.template(templates): sets the class attribute Reporter.TEMPLATE
template(t) ==
    /\ TEMPLATE' = t
    /\ call' = [op |-> "template", node |-> "REPORTER", exc |-> "none"]
    /\ log' = <<>>
    /\ UNCHANGED <<fan, pending, delegates, level, beanstalk, brokerUp, jobs, isRunning, wpc,
                   onlyUnique>>

\* the nodes the module-level API is given
RegNodes == {"stderr", "stderr2", "errors"}

\* the argument lists: one node of S, or two different ones
Args(S) == {<< a >> : a \in S} \cup {p \in S \X S : p[1] # p[2]}

\* reporter.register(*reporter, unique=..., level=...): lvl is the set of
\* the level option's values, {} when "level" is not in options
register(reporter, unique, lvl) ==
    LET st0 == Tree(delegates, level)
        st1 == IF lvl # {}
               THEN Reporter_setLevel(st0, "REPORTER", CHOOSE l \in lvl : TRUE)
               ELSE st0
        st2 == RegisterUnique(st1, reporter, unique)
    IN  /\ delegates' = st2.dl
        /\ level' = st2.lv
        /\ onlyUnique' = (onlyUnique /\ unique)
        /\ call' = [op |-> "register", node |-> "REPORTER", args |-> reporter,
                    unique |-> unique, lvl |-> lvl, exc |-> "none"]
        /\ log' = <<>>
        /\ UNCHANGED <<fan, pending, TEMPLATE, beanstalk, brokerUp, jobs, isRunning, wpc>>

\* n.register(*reporters), called on a node
ReporterRegister(n, reporters) ==
    LET st == Reporter_register(Tree(delegates, level), n, reporters)
    IN  /\ \A i \in 1..Len(reporters) :
              n \notin Descendants(delegates, reporters[i])
        /\ delegates' = st.dl
        /\ level' = st.lv
        /\ onlyUnique' = (onlyUnique /\ n # "REPORTER")
        /\ call' = [op |-> "Reporter.register", node |-> n, args |-> reporters,
                    lvl |-> {}, exc |-> "none"]
        /\ log' = <<>>
        /\ UNCHANGED <<fan, pending, TEMPLATE, beanstalk, brokerUp, jobs, isRunning, wpc>>

\* n.unregister(*reporters); reporter.unregister(...) is the call on REPORTER
unregister(n, reporters) ==
    LET r == Reporter_unregister(Tree(delegates, level), n, reporters)
    IN  /\ delegates' = r.st.dl
        /\ level' = r.st.lv
        /\ call' = [op |-> "unregister", node |-> n, args |-> reporters,
                    removed |-> Len(delegates[n]) - Len(r.st.dl[n]),
                    exc |-> r.exc]
        /\ log' = <<>>
        /\ UNCHANGED <<fan, pending, TEMPLATE, beanstalk, brokerUp, jobs, isRunning, wpc,
                       onlyUnique>>

\* n.setLevel(l); reporter.setLevel(l) is the call on REPORTER
setLevel(n, l) ==
    LET st == Reporter_setLevel(Tree(delegates, level), n, l)
    IN  /\ delegates' = st.dl
        /\ level' = st.lv
        /\ call' = [op |-> "setLevel", node |-> n, arg |-> l, exc |-> "none"]
        /\ log' = <<>>
        /\ UNCHANGED <<fan, pending, TEMPLATE, beanstalk, brokerUp, jobs, isRunning, wpc,
                       onlyUnique>>

\* the module-level API, all on REPORTER
Next ==
    \/ \E fn \in Fns, a \in EmitArgs : Emit("REPORTER", fn, a[1], a[2], a[3])
    \/ \E t \in TemplateNames : template(t)
    \/ \E rs \in Args(RegNodes), u \in BOOLEAN,
          l \in {{}} \cup {{x} : x \in RegisterLevels} : register(rs, u, l)
    \/ \E rs \in Args(RegNodes) : unregister("REPORTER", rs)
    \/ \E l \in SetLevels : setLevel("REPORTER", l)

Spec == Init /\ [][Next]_vars

\* the methods called on the nodes themselves: trees of any depth.  The
\* pairs (parent, child) the callers register and unregister:
TreeEdges ==
    { << "REPORTER", "hub" >>, << "REPORTER", "errors" >>, << "hub", "errors" >>,
      << "hub", "stderr2" >>, << "errors", "stderr2" >> }
TreeParents == {"REPORTER", "hub", "errors"}
TreeFns == {"info", "error"}
TreeLevels == {FATAL}
TreeArgs == << [enc |-> "str", text |-> "ping"], "svc", "E1" >>

NextTree ==
    \/ \E n \in TreeParents, fn \in TreeFns :
          Emit(n, fn, TreeArgs[1], TreeArgs[2], TreeArgs[3])
    \/ \E e \in TreeEdges : ReporterRegister(e[1], << e[2] >>)
    \/ \E e \in TreeEdges : unregister(e[1], << e[2] >>)
    \/ \E n \in TreeParents, l \in TreeLevels : setLevel(n, l)

SpecTree == Init /\ [][NextTree]_vars
-----------------------------------------------------------------------------
(* The Beanstalk relay *)

JobEv(what, j) == [ev |-> what, job |-> j]

\* BeanstalkReporter(...): Reporter.__init__, then connect() inside
\* try/except socket.error.  dropped: the server goes away after
\* Connection() and before use(), which leaves self.beanstalk set.
NewBeanstalkReporter(dropped) ==
    /\ beanstalk = "unbuilt"
    /\ dropped => brokerUp
    /\ beanstalk' = IF brokerUp THEN "conn" ELSE "None"
    /\ brokerUp' = (brokerUp /\ ~dropped)
    /\ level' = [level EXCEPT !["relay"] = DEBUG]
    /\ delegates' = [delegates EXCEPT !["relay"] = <<>>]
    /\ call' = [op |-> "BeanstalkReporter", node |-> "relay", exc |-> "none"]
    /\ log' = IF brokerUp /\ ~dropped THEN <<>>
              ELSE << PrintEv("relay",
                        "[!] BeanstalkWorker cannot connect to beanstalkd server") >>
    /\ UNCHANGED <<fan, pending, TEMPLATE, jobs, isRunning, wpc, onlyUnique>>

\* the beanstalkd server goes away, or comes back
BrokerFlip ==
    /\ brokerUp' = ~brokerUp
    /\ call' = [op |-> "broker", node |-> "relay", exc |-> "none"]
    /\ log' = <<>>
    /\ UNCHANGED <<fan, pending, delegates, level, TEMPLATE, beanstalk, jobs, isRunning, wpc,
                   onlyUnique>>

\* the bodies other producers put in the tube
ForeignBodies ==
    { << "text", "not json" >>,
      json_dumps(Dict([type |-> "other.Message", message |-> "x", level |-> ERROR])),
      json_dumps(Dict([type |-> "reporter.Message", message |-> "x"])),
      json_dumps(Dict([message |-> "x", level |-> ERROR])) }

\* another producer's put on the tube
PutForeign(body) ==
    /\ brokerUp
    /\ Len(jobs) < MaxJobs
    /\ jobs' = Append(jobs, [body |-> body, state |-> "ready", replays |-> 0])
    /\ call' = [op |-> "put", node |-> "relay", exc |-> "none"]
    /\ log' = <<>>
    /\ UNCHANGED <<fan, pending, delegates, level, TEMPLATE, beanstalk, brokerUp, isRunning, wpc,
                   onlyUnique>>

\* BeanstalkWorker.start(): isRunning = True, then run()
WorkerStart ==
    /\ wpc \in {"idle", "dead"}
    /\ isRunning' = TRUE
    /\ wpc' = "loop"
    /\ call' = [op |-> "start", node |-> "REPORTER", exc |-> "none"]
    /\ log' = <<>>
    /\ UNCHANGED <<fan, pending, delegates, level, TEMPLATE, beanstalk, brokerUp, jobs, onlyUnique>>

\* BeanstalkWorker.stop(), from another thread
WorkerStop ==
    /\ isRunning
    /\ isRunning' = FALSE
    /\ call' = [op |-> "stop", node |-> "REPORTER", exc |-> "none"]
    /\ log' = <<>>
    /\ UNCHANGED <<fan, pending, delegates, level, TEMPLATE, beanstalk, brokerUp, jobs, wpc,
                   onlyUnique>>

\* run(): "while self.isRunning" found true, self._iterate() is entered
\* and waits in reserve()
WorkerEnter ==
    /\ wpc = "loop" /\ isRunning
    /\ wpc' = "iterate"
    /\ call' = [op |-> "while", node |-> "REPORTER", exc |-> "none"]
    /\ log' = <<>>
    /\ UNCHANGED <<fan, pending, delegates, level, TEMPLATE, beanstalk, brokerUp, jobs, isRunning,
                   onlyUnique>>

\* a stop that takes effect inside _iterate, during the wait in reserve()
WorkerExitMidIteration ==
    /\ wpc \in {"loop", "iterate"} /\ ~isRunning
    /\ wpc' = "idle"
    /\ call' = [op |-> "run", node |-> "REPORTER", exc |-> "none"]
    /\ log' = <<>>
    /\ UNCHANGED <<fan, pending, delegates, level, TEMPLATE, beanstalk, brokerUp, jobs, isRunning,
                   onlyUnique>>

\* run(): "while self.isRunning" found false
WorkerExit ==
    /\ wpc = "loop" /\ ~isRunning
    /\ wpc' = "idle"
    /\ call' = [op |-> "run", node |-> "REPORTER", exc |-> "none"]
    /\ log' = <<>>
    /\ UNCHANGED <<fan, pending, delegates, level, TEMPLATE, beanstalk, brokerUp, jobs, isRunning,
                   onlyUnique>>

\* dict.get(key): "None" when the key is missing
DictGet(data, key) ==
    IF key \in DOMAIN data.fields THEN data.fields[key] ELSE "None"

\* the test of _iterate without the comparison of data.get("type")
AcceptsAnyDict(data) ==
    /\ data.kind = "dict"
    /\ DOMAIN data.fields # {}

\* the test of _iterate on the loaded data: a non-empty dict of the type
Accepts(data) ==
    /\ data.kind = "dict"
    /\ DOMAIN data.fields # {}
    /\ DictGet(data, "type") = "reporter.Message"

\* _process that replays through the gate of REPORTER's own level
ProcessGated(w, data, j) ==
    IF "level" \notin DOMAIN data.fields \/ "message" \notin DOMAIN data.fields
    THEN [log |-> << RaiseEv("REPORTER", "KeyError") >>, exc |-> "KeyError",
          deleted |-> FALSE]
    ELSE LET r == IF data.fields["level"] >= w.lv["REPORTER"]
                  THEN _send(w, "worker", "REPORTER", data.fields["level"],
                             data.fields["message"])
                  ELSE Returned(<<>>)
         IN  IF r.exc # "none"
             THEN [log |-> r.log, exc |-> r.exc, deleted |-> FALSE]
             ELSE [log |-> r.log \o << JobEv("delete", j) >>, exc |-> "none",
                   deleted |-> TRUE]

\* BeanstalkWorker._process(message, job): [log, exc, deleted]
_process(w, data, j) ==
    IF "level" \notin DOMAIN data.fields \/ "message" \notin DOMAIN data.fields
    THEN [log |-> << RaiseEv("REPORTER", "KeyError") >>, exc |-> "KeyError",
          deleted |-> FALSE]
    ELSE LET r == _send(w, "worker", "REPORTER", data.fields["level"],
                        data.fields["message"])
         IN  IF r.exc # "none"
             THEN [log |-> r.log, exc |-> r.exc, deleted |-> FALSE]
             ELSE [log |-> r.log \o << JobEv("delete", j) >>, exc |-> "none",
                   deleted |-> TRUE]

\* the first ready job of the tube, 0 when there is none
FirstReady ==
    IF \E i \in 1..Len(jobs) : jobs[i].state = "ready"
    THEN CHOOSE i \in 1..Len(jobs) :
            /\ jobs[i].state = "ready"
            /\ \A k \in 1..(i - 1) : jobs[k].state # "ready"
    ELSE 0

ReserveErrors == {"DeadlineSoon", "CommandFailed", "UnexpectedResponse"}

\* _iterate() from the return of reserve() to its end, and back to the
\* test of run().  resp: what reserve() gives, "job" or the error it raises.
WorkerIterate(resp) ==
    /\ wpc = "iterate"
    /\ IF resp = "job"
       THEN /\ brokerUp
            /\ FirstReady # 0
            /\ LET j == FirstReady
                   loaded == json_loads(jobs[j].body)
               IN  IF ~loaded.ok
                   THEN \* job.release(); return False
                        /\ jobs' = [jobs EXCEPT ![j].state = "ready"]
                        /\ log' = << JobEv("reserve", j), JobEv("release", j) >>
                        /\ call' = [op |-> "_iterate", node |-> "REPORTER", job |-> j,
                                    ret |-> FALSE, exc |-> "none"]
                        /\ wpc' = "loop"
                   ELSE IF ~Accepts(loaded.data)
                   THEN \* return False, the job stays reserved
                        /\ jobs' = [jobs EXCEPT ![j].state = "reserved"]
                        /\ log' = << JobEv("reserve", j) >>
                        /\ call' = [op |-> "_iterate", node |-> "REPORTER", job |-> j,
                                    ret |-> FALSE, exc |-> "none"]
                        /\ wpc' = "loop"
                   ELSE LET r == _process(World(delegates, level, beanstalk, brokerUp),
                                          loaded.data, j)
                            puts == PutJobs(r.log)
                        IN  /\ Len(jobs) + Len(puts) <= MaxJobs
                            /\ jobs' = [jobs EXCEPT
                                          ![j].state = IF r.deleted THEN "deleted"
                                                       ELSE "reserved",
                                          ![j].replays = @ + 1] \o puts
                            /\ log' = << JobEv("reserve", j) >> \o r.log
                            /\ call' = [op |-> "_iterate", node |-> "REPORTER",
                                        job |-> j, ret |-> (r.exc = "none"),
                                        exc |-> r.exc]
                            /\ wpc' = IF r.exc = "none" THEN "loop" ELSE "dead"
       ELSE /\ IF resp = "SocketError" THEN ~brokerUp ELSE brokerUp
            /\ jobs' = jobs
            \* the handler's reporter.error(...) names no global of the module
            /\ log' = << RaiseEv("REPORTER",
                           IF resp \in ReserveErrors THEN "NameError" ELSE resp) >>
            /\ call' = [op |-> "_iterate", node |-> "REPORTER", job |-> 0,
                        ret |-> FALSE,
                        exc |-> IF resp \in ReserveErrors THEN "NameError" ELSE resp]
            /\ wpc' = "dead"
    /\ UNCHANGED <<fan, pending, delegates, level, TEMPLATE, beanstalk, brokerUp, isRunning,
                   onlyUnique>>

\* the relay with its producer and its worker on one REPORTER
RelayFns == {"info", "error"}
RelayNodes == {"relay", "errors"}
RelayLevels == {FATAL}

NextRelay ==
    \/ \E d \in BOOLEAN : NewBeanstalkReporter(d)
    \/ BrokerFlip
    \/ \E n \in RelayNodes :
          /\ n = "relay" => beanstalk # "unbuilt"
          /\ register(<< n >>, TRUE, {})
    \/ \E l \in RelayLevels : setLevel("REPORTER", l)
    \/ \E fn \in RelayFns : Emit("REPORTER", fn, TreeArgs[1], TreeArgs[2], TreeArgs[3])
    \/ \E b \in ForeignBodies : PutForeign(b)
    \/ WorkerStart
    \/ WorkerStop
    \/ WorkerEnter
    \/ WorkerExit
    \/ \E resp \in {"job", "SocketError"} \cup ReserveErrors : WorkerIterate(resp)

SpecRelay == Init /\ [][NextRelay]_vars

\* the worker's thread is scheduled: the test of run() that finds the flag
\* false is eventually made
SpecRelayFair == SpecRelay /\ WF_vars(WorkerExit)

-----------------------------------------------------------------------------
(* Calls of several threads on one node.  The module takes no lock: the    *)
(* loop of _forward and the two steps of a unique registration are         *)
(* followed one step at a time, the calls of the other threads in between. *)

\* n.fn(message, component, code) passes the gate, renders, and _send
\* enters _forward: the list iterator is at the first position.  One such
\* call is followed step by step.
FanBegin(n, fn, m, component, code) ==
    /\ fan.pc = "idle"
    /\ Gate(fn, level[n])
    /\ TemplateIndex(fn) + 1 <= Len(Table(TEMPLATE))
    /\ LET rendered == Format(Table(TEMPLATE)[TemplateIndex(fn) + 1], timestamp,
                              IF code = "" THEN "-" ELSE code,
                              _getComponent(component), ensure_unicode(m).text)
       IN  /\ fan' = [pc |-> "run", node |-> n, i |-> 1, start |-> delegates[n],
                      got |-> <<>>, level |-> SendLevel(fn), text |-> rendered]
           /\ log' = << SendEv("api", n, SendLevel(fn), rendered) >>
    /\ call' = [op |-> "_forward", node |-> n, exc |-> "none"]
    /\ UNCHANGED <<delegates, level, TEMPLATE, beanstalk, brokerUp, jobs, isRunning,
                   wpc, onlyUnique, pending>>

\* one turn of "for delegate in self.delegates: delegate._send(...)": the
\* iterator reads the list as it is now, at its own position, and the loop
\* ends when the position is past the end of the list
FanStep ==
    /\ fan.pc = "run"
    /\ IF fan.i <= Len(delegates[fan.node])
       THEN LET delegate == delegates[fan.node][fan.i]
                r == _send(World(delegates, level, beanstalk, brokerUp),
                           fan.node, delegate, fan.level, fan.text)
            IN  /\ PutJobs(r.log) = <<>>
                /\ fan' = [fan EXCEPT !.pc = IF r.exc = "none" THEN "run" ELSE "raised",
                                      !.i = @ + 1,
                                      !.got = Append(@, delegate)]
                /\ log' = r.log
                /\ call' = [op |-> "_forward", node |-> fan.node, exc |-> r.exc]
       ELSE /\ fan' = [fan EXCEPT !.pc = "done"]
            /\ log' = <<>>
            /\ call' = [op |-> "_forward", node |-> fan.node, exc |-> "none"]
    /\ UNCHANGED <<delegates, level, TEMPLATE, beanstalk, brokerUp, jobs, isRunning,
                   wpc, onlyUnique, pending>>

\* thread t in register(reporter, unique=True): REPORTER.has(reporter.__class__)
\* is evaluated; when it is false the thread goes on to REPORTER.register
UniqueCheck(t, reporter) ==
    /\ pending[t] = "none"
    /\ pending' = [pending EXCEPT ![t] =
                      IF Reporter_has(Tree(delegates, level), "REPORTER", Class(reporter))
                      THEN "none" ELSE reporter]
    /\ call' = [op |-> "has", node |-> "REPORTER", exc |-> "none"]
    /\ log' = <<>>
    /\ UNCHANGED <<delegates, level, TEMPLATE, beanstalk, brokerUp, jobs, isRunning,
                   wpc, onlyUnique, fan>>

\* thread t, after the test: REPORTER.register(reporter)
UniqueAct(t) ==
    /\ pending[t] # "none"
    /\ LET st == RegisterOne(Tree(delegates, level), "REPORTER", pending[t])
       IN  /\ delegates' = st.dl
           /\ level' = st.lv
    /\ pending' = [pending EXCEPT ![t] = "none"]
    /\ call' = [op |-> "Reporter.register", node |-> "REPORTER",
                args |-> << pending[t] >>, lvl |-> {}, exc |-> "none"]
    /\ log' = <<>>
    /\ UNCHANGED <<TEMPLATE, beanstalk, brokerUp, jobs, isRunning, wpc, onlyUnique,
                   fan>>

\* the nodes the threads register and unregister: both StderrReporter
RaceNodes == {"stderr", "stderr2"}
RaceLevels == {FATAL}

NextRace ==
    \/ FanBegin("REPORTER", "error", TreeArgs[1], TreeArgs[2], TreeArgs[3])
    \/ FanStep
    \/ \E t \in Threads, x \in RaceNodes : UniqueCheck(t, x)
    \/ \E t \in Threads : UniqueAct(t)
    \/ \E x \in RaceNodes : unregister("REPORTER", << x >>)
    \/ \E l \in RaceLevels : setLevel("REPORTER", l)

SpecRace == Init /\ [][NextRace]_vars

-----------------------------------------------------------------------------
(* Properties *)

IsEmission == call.op \in Fns

Sends == SelectSeq(log, LAMBDA e : e.ev = "_send")
SendsTo(n) == SelectSeq(log, LAMBDA e : e.ev = "_send" /\ e.node = n)
SendsBy(p) == SelectSeq(log, LAMBDA e : e.ev = "_send" /\ e.by = p)
Raises == SelectSeq(log, LAMBDA e : e.ev = "raise")

\* C1: an emission for severity L on a node with threshold T invokes _send
\* on every child of the node when L >= T, and does nothing (no _send, no
\* rendering) when L < T.
C1_ForwardsIffAtThreshold ==
    IsEmission =>
        LET L == GateLevel(call.op)
            T == call.threshold
            kids == delegates[call.node]
        IN  /\ L >= T => \A i \in 1..Len(kids) : Len(SendsTo(kids[i])) >= 1
            /\ L < T => log = <<>>

\* C2: an emission call that completes returns the message text it was
\* given: the very value when it is gated out or is a str, and the same
\* text as a str when a bytes message passes the gate.
C2_ReturnsOriginalMessage ==
    (IsEmission /\ call.exc = "none") =>
        /\ call.ret.text = call.message.text
        /\ call.ret.enc \in {"str", "bytes"}
        /\ (call.message.enc = "str" \/ ~(GateLevel(call.op) >= call.threshold))
              => call.ret = call.message

\* a completed call that was rendered and forwarded, whose rendered line
\* differs from the message
C2_Witness ==
    /\ IsEmission /\ call.exc = "none"
    /\ Len(Sends) >= 2
    /\ Sends[1].text # call.message.text
    /\ call.ret = call.message

\* C3: an emission for severity L that passes the gate renders with the
\* template entry at index L and calls _send with level L, so that every
\* _send of the call carries L.
C3_SentAtOwnSeverity ==
    (IsEmission /\ Len(Sends) >= 1) =>
        LET L == GateLevel(call.op)
        IN  /\ \A i \in 1..Len(Sends) : Sends[i].level = L
            /\ Sends[1].text =
                  Format(Table(TEMPLATE)[L + 1], timestamp,
                         IF call.code = "" THEN "-" ELSE call.code,
                         IF call.component = "" THEN "-" ELSE call.component,
                         call.message.text)

\* the fan-outs of the last call: the nodes of class Reporter that
\* received _send once
Forwarders == {p \in Nodes : Class(p) = "Reporter" /\ Len(SendsTo(p)) = 1}

\* C4 as stated: a node that forwards calls _send on each of its children
\* exactly once, in registration order, with the level and string it was
\* given itself.
C4_EveryChildExactlyOnce ==
    \A p \in Forwarders :
        LET out == SendsBy(p)
            kids == delegates[p]
        IN  /\ Len(out) = Len(kids)
            /\ \A i \in 1..Len(out) :
                  /\ out[i].node = kids[i]
                  /\ out[i].level = SendsTo(p)[1].level
                  /\ out[i].text = SendsTo(p)[1].text

\* C4 as amended: the children are called in registration order, each at
\* most once, with the level and string the node was given, up to the first
\* child whose _send raises; all of them when none raises, and none after
\* one that raised.
C4_ChildrenInOrderUntilRaise ==
    \A p \in Forwarders :
        LET out == SendsBy(p)
            kids == delegates[p]
        IN  /\ Len(out) <= Len(kids)
            /\ \A i \in 1..Len(out) :
                  /\ out[i].node = kids[i]
                  /\ out[i].level = SendsTo(p)[1].level
                  /\ out[i].text = SendsTo(p)[1].text
            /\ Len(Raises) = 0 => Len(out) = Len(kids)
            /\ Len(Raises) > 0 => /\ log[Len(log)].ev = "raise"
                                  /\ Len(Raises) = 1
                                  /\ call.exc = Raises[1].exc

\* a fan-out of REPORTER that reached two children and was ended by the
\* second, before the third
C4_Witness ==
    /\ "REPORTER" \in Forwarders
    /\ Len(delegates["REPORTER"]) = 3
    /\ Len(SendsBy("REPORTER")) = 2
    /\ Len(Raises) = 1

NoTwoOfAClass(ds) ==
    \A i \in 1..Len(ds), j \in 1..Len(ds) : i # j => Class(ds[i]) # Class(ds[j])

\* the arguments register(..., unique=True) has to add to the delegates ds:
\* those whose class is neither in ds nor that of an earlier argument
RECURSIVE NewOfClass(_, _, _)
NewOfClass(args, i, classes) ==
    IF i > Len(args) THEN <<>>
    ELSE IF Class(args[i]) \in classes THEN NewOfClass(args, i + 1, classes)
    ELSE << args[i] >> \o NewOfClass(args, i + 1, classes \cup {Class(args[i])})

\* C5: as long as every registration on REPORTER went through register with
\* unique=True, no two children of REPORTER have the same class; such a call
\* skips the arguments whose class is present (or was added earlier in the
\* call) and appends the others in call order.
C5_UniqueByClass ==
    /\ [](onlyUnique => NoTwoOfAClass(delegates["REPORTER"]))
    /\ [][(call'.op = "register" /\ call'.unique /\ onlyUnique) =>
            delegates'["REPORTER"] =
                delegates["REPORTER"] \o
                NewOfClass(call'.args, 1,
                           {Class(d) : d \in Range(delegates["REPORTER"])})]_vars

\* register(stderr2, errors) with unique=True on a REPORTER that had stderr:
\* stderr2 was skipped, errors appended
C5_Witness ==
    /\ onlyUnique
    /\ call.op = "register" /\ call.unique
    /\ call.args = << "stderr2", "errors" >>
    /\ delegates["REPORTER"] = << "stderr", "errors" >>

\* C6: unregister(node) raises AssertionError and changes nothing when node
\* is not a child of the receiver; when it is, it returns and the children
\* are the former ones without node, in their former order.
C6_UnregisterChildOrFail ==
    [][\A n \in Nodes, x \in Nodes :
          (call'.op = "unregister" /\ call'.node = n /\ call'.args = << x >>) =>
              IF IsIn(x, delegates[n])
              THEN /\ call'.exc = "none"
                   /\ delegates'[n] = SelectSeq(delegates[n], LAMBDA y : y # x)
                   /\ Len(delegates'[n]) = Len(delegates[n]) - 1
                   /\ \A m \in Nodes \ {n} : delegates'[m] = delegates[m]
              ELSE /\ call'.exc = "AssertionError"
                   /\ delegates' = delegates]_vars

\* the middle one of three children was unregistered
C6_Witness ==
    /\ call.op = "unregister" /\ call.exc = "none" /\ call.node = "REPORTER"
    /\ call.args = << "stderr2" >>
    /\ delegates["REPORTER"] = << "stderr", "errors" >>

\* C7: setLevel(T) on a node sets the level of the node and of every node
\* reachable through its children to T, and changes no delegates list.
C7_SetLevelCascades ==
    /\ [](call.op = "setLevel" =>
            \A m \in Descendants(delegates, call.node) : level[m] = call.arg)
    /\ [][call'.op = "setLevel" => delegates' = delegates]_vars

\* setLevel on REPORTER reached a great-grandchild whose level was another
C7_Witness ==
    /\ call.op = "setLevel" /\ call.node = "REPORTER"
    /\ IsIn("hub", delegates["REPORTER"])
    /\ IsIn("errors", delegates["hub"])
    /\ IsIn("stderr2", delegates["errors"])
    /\ level["stderr2"] = call.arg

\* C8: register (without the level option) does not change the level of
\* the nodes it is given.
C8_RegisterKeepsLevel ==
    [][(call'.op \in {"register", "Reporter.register"} /\ call'.lvl = {}) =>
          \A i \in 1..Len(call'.args) :
              level'[call'.args[i]] = level[call'.args[i]]]_vars

PutsBy(n) == SelectSeq(log, LAMBDA e : e.ev = "put" /\ e.node = n)
PrintsBy(n) == SelectSeq(log, LAMBDA e : e.ev = "print" /\ e.node = n)
RaisesBy(n) == SelectSeq(log, LAMBDA e : e.ev = "raise" /\ e.node = n)

\* C9: a BeanstalkReporter constructed while the server does not answer is
\* returned by its constructor, which raises nothing, with self.beanstalk
\* None; it stays so, and each _send on it then puts no job, raises nothing
\* and prints the warning.
C9_DisabledRelayOnlyWarns ==
    /\ [][(call'.op = "BeanstalkReporter" /\ ~brokerUp) =>
            (call'.exc = "none" /\ beanstalk' = "None")]_vars
    /\ [][beanstalk = "None" => beanstalk' = "None"]_vars
    /\ []((beanstalk = "None" /\ call.op # "BeanstalkReporter") =>
            /\ jobs = SelectSeq(jobs, LAMBDA j : j.body \in ForeignBodies)
            /\ PutsBy("relay") = <<>>
            /\ RaisesBy("relay") = <<>>
            /\ Len(PrintsBy("relay")) = Len(SendsTo("relay")))

\* an emission that returned after the disabled relay got its _send, with
\* the server answering again
C9_Witness ==
    /\ beanstalk = "None" /\ brokerUp
    /\ IsEmission /\ call.exc = "none"
    /\ Len(SendsTo("relay")) = 1
    /\ Len(PrintsBy("relay")) = 1

\* a body as BeanstalkReporter._send makes it
IsMessageBody(body) ==
    /\ body[1] = "json"
    /\ body[2].kind = "dict"
    /\ DOMAIN body[2].fields = {"type", "message", "level"}
    /\ body[2].fields["type"] = "reporter.Message"

\* C10: for a job with a reporter.Message body the worker calls
\* REPORTER._send once, with the stored level and message whatever the
\* level of REPORTER; when that call returned the job is deleted, after it;
\* when it raised the job is not deleted; no job is replayed twice, and a
\* replayed job is never ready again.
C10_ReplayThenDelete ==
    /\ (call.op = "_iterate" /\ call.job # 0 /\ IsMessageBody(jobs[call.job].body)) =>
          LET d == jobs[call.job].body[2].fields
              ws == SendsBy("worker")
              dels == SelectSeq(log, LAMBDA e : e.ev = "delete")
          IN  /\ Len(ws) = 1
              /\ ws[1].node = "REPORTER"
              /\ ws[1].level = d["level"]
              /\ ws[1].text = d["message"]
              /\ call.exc = "none" =>
                    /\ dels = << JobEv("delete", call.job) >>
                    /\ log[Len(log)] = JobEv("delete", call.job)
                    /\ jobs[call.job].state = "deleted"
              /\ call.exc # "none" =>
                    /\ dels = <<>>
                    /\ jobs[call.job].state = "reserved"
    /\ \A i \in 1..Len(jobs) :
          /\ jobs[i].replays <= 1
          /\ jobs[i].replays = 1 => jobs[i].state # "ready"

\* a job of level ERROR replayed into a REPORTER whose level is FATAL,
\* passed on to its children, and then deleted
C10_Witness ==
    /\ call.op = "_iterate" /\ call.exc = "none" /\ call.job # 0
    /\ IsMessageBody(jobs[call.job].body)
    /\ level["REPORTER"] > jobs[call.job].body[2].fields["level"]
    /\ Len(Sends) >= 2
    /\ jobs[call.job].state = "deleted"

\* the job of the last _iterate, its body loaded
IterJob == jobs[call.job]
IterLoaded == json_loads(IterJob.body)
IsIterate == call.op = "_iterate" /\ call.job # 0
Releases == SelectSeq(log, LAMBDA e : e.ev = "release")
Deletes == SelectSeq(log, LAMBDA e : e.ev = "delete")

\* C11: a reserved job whose body json.loads cannot load is deleted, not
\* released: it is never ready again, nothing is sent into the tree and
\* the loop goes on.
C11_UndecodableJobDeleted ==
    (IsIterate /\ ~IterLoaded.ok) =>
        /\ IterJob.state = "deleted"
        /\ Deletes = << JobEv("delete", call.job) >>
        /\ Releases = <<>>
        /\ Sends = <<>>
        /\ wpc = "loop"

\* C12: a reserved job whose body loads but whose "type" is not
\* "reporter.Message" is neither deleted nor released (it stays reserved),
\* nothing is sent into the tree, no delegates list and no level changes,
\* and _iterate returns False to the loop, which goes on.
C12_WrongTypeLeftReserved ==
    /\ []((IsIterate /\ IterLoaded.ok
             /\ DictGet(IterLoaded.data, "type") # "reporter.Message") =>
            /\ IterJob.state = "reserved"
            /\ log = << JobEv("reserve", call.job) >>
            /\ call.exc = "none" /\ call.ret = FALSE
            /\ wpc = "loop")
    /\ [][(call'.op = "_iterate" /\ call'.job # 0
             /\ json_loads(jobs[call'.job].body).ok
             /\ DictGet(json_loads(jobs[call'.job].body).data, "type")
                   # "reporter.Message") =>
            (delegates' = delegates /\ level' = level)]_vars

\* a job of type "other.Message" was reserved and left so, and the loop is
\* at its test again
C12_Witness ==
    /\ IsIterate /\ IterLoaded.ok
    /\ DictGet(IterLoaded.data, "type") = "other.Message"
    /\ IterJob.state = "reserved"
    /\ wpc = "loop"

\* C13: a reserved job whose body loads as a dict without "type", without
\* "level" or without "message" is deleted, nothing is sent into the tree,
\* and the loop goes on.
C13_MissingFieldDiscarded ==
    (IsIterate /\ IterLoaded.ok
       /\ \E k \in {"type", "level", "message"} :
              k \notin DOMAIN IterLoaded.data.fields) =>
        /\ IterJob.state = "deleted"
        /\ Sends = <<>>
        /\ call.exc = "none"
        /\ wpc = "loop"

\* C14: the flag is read by the test of run() only.  An iteration that was
\* entered ends by the return of _iterate, whatever stop() did meanwhile,
\* and a reporter.Message job it reserved is then replayed and deleted; an
\* iteration is entered only with the flag true; the test that finds the
\* flag false leaves the loop, and it is eventually made.
C14_StopBetweenIterations ==
    /\ [][(wpc = "iterate" /\ wpc' # "iterate") => call'.op = "_iterate"]_vars
    /\ [][(wpc # "iterate" /\ wpc' = "iterate") => (wpc = "loop" /\ isRunning)]_vars
    /\ [][(wpc = "loop" /\ ~isRunning /\ wpc' # wpc) =>
            (wpc' = "idle" /\ call'.op = "run" /\ jobs' = jobs)]_vars
    /\ []((IsIterate /\ ~isRunning /\ IsMessageBody(IterJob.body)
             /\ call.exc = "none") =>
            (Len(SendsBy("worker")) = 1 /\ IterJob.state = "deleted"))
    /\ ((wpc = "loop" /\ ~isRunning) ~> (wpc = "idle"))

\* stop() came during an iteration, whose reporter.Message job was replayed
\* and deleted all the same; the loop is at its test, the flag false
C14_Witness ==
    /\ IsIterate /\ ~isRunning /\ wpc = "loop"
    /\ IsMessageBody(IterJob.body)
    /\ Len(SendsBy("worker")) = 1
    /\ IterJob.state = "deleted"

\* C15: when reserve() raises DeadlineSoon, CommandFailed, UnexpectedResponse
\* or a socket error, the worker reports it with an error emission on the
\* dispatcher and the loop goes on: _iterate raises nothing.
C15_PollErrorReported ==
    (call.op = "_iterate" /\ call.job = 0) =>
        /\ call.exc = "none"
        /\ Len(SendsTo("REPORTER")) = 1
        /\ wpc = "loop"

\* C16: the table a node renders with has one entry for each of the eight
\* severities, and an emission that passes the gate finds its entry: it
\* does not end with IndexError.
C16_OneEntryPerSeverity ==
    /\ Len(Table(TEMPLATE)) = Cardinality(Levels)
    /\ (IsEmission /\ GateLevel(call.op) >= call.threshold) =>
          call.exc # "IndexError"

\* C17: when the _send of a child raises during the fan-out of an emission,
\* each node that forwarded has called its children in order up to the one
\* that raised and none after it, the raise is the last thing that
\* happened, and the emission call ends with that exception and returns no
\* value.
C17_RaisingChildEndsFanOut ==
    (IsEmission /\ Class(call.node) = "Reporter"
       /\ call.exc \notin {"none", "IndexError"}) =>
        /\ call.ret = None
        /\ Len(Raises) = 1
        /\ log[Len(log)] = Raises[1]
        /\ Raises[1].exc = call.exc
        /\ \A p \in Forwarders :
              LET out == SendsBy(p)
                  kids == delegates[p]
              IN  /\ Len(out) <= Len(kids)
                  /\ \A i \in 1..Len(out) : out[i].node = kids[i]
                  /\ (p = call.node \/ Len(out) < Len(kids)) =>
                        /\ Len(out) >= 1
                        /\ \/ out[Len(out)].node = Raises[1].node
                           \/ out[Len(out)].node \in Forwarders

\* an emission on REPORTER whose second child, hub, passed it to stderr2
\* and then to errors, which raised: the third child of REPORTER was not
\* called and the caller got the exception
C17_Witness ==
    /\ IsEmission /\ call.node = "REPORTER" /\ call.exc = "NameError"
    /\ call.ret = None
    /\ delegates["REPORTER"] = << "stderr", "hub", "errors" >>
    /\ delegates["hub"] = << "stderr2", "errors" >>
    /\ Len(SendsBy("REPORTER")) = 2
    /\ Len(SendsBy("hub")) = 2

\* C18: an emission that passes the gate of its node and returns has had
\* _send called on every node below it, at any depth, whatever the class
\* of the nodes in between.
C18_ReachesEveryDescendant ==
    (IsEmission /\ GateLevel(call.op) >= call.threshold /\ call.exc = "none") =>
        \A d \in Descendants(delegates, call.node) \ {call.node} :
            Len(SendsTo(d)) >= 1

\* C20: an emission that reaches a BeanstalkReporter does not end with an
\* exception of that node, whether or not the server answers.
C20_RelaySendNeverRaises ==
    (IsEmission /\ Len(SendsTo("relay")) >= 1) =>
        /\ RaisesBy("relay") = <<>>
        /\ call.exc # "SocketError"

\* the number of times x was given the message by the followed _forward
Count(seq, x) == Len(SelectSeq(seq, LAMBDA y : y = x))

\* C19: a _forward that ran to its end, with register, unregister and
\* setLevel of other threads on the same node in between, has called _send
\* exactly once on every node that was a delegate when it started; and
\* registrations with unique=True, even at the same time, never leave two
\* delegates of one class on REPORTER.
C19_FanOutExcludesMutation ==
    /\ fan.pc = "done" =>
          \A x \in Range(fan.start) : Count(fan.got, x) = 1
    /\ onlyUnique => NoTwoOfAClass(delegates["REPORTER"])

NoDuplicates(seq) ==
    \A i \in 1..Len(seq), j \in 1..Len(seq) : i # j => seq[i] # seq[j]

IsPrefix(a, b) == Len(a) <= Len(b) /\ SubSeq(b, 1, Len(a)) = a

\* C21: no delegates list ever holds a node twice; a register on REPORTER,
\* with unique true or false, keeps the former delegates in their places
\* and adds only arguments that were not delegates, so that a call whose
\* arguments are all delegates changes no list.
C21_NoChildTwice ==
    /\ [](\A n \in Nodes : NoDuplicates(delegates[n]))
    /\ [][call'.op = "register" =>
            /\ IsPrefix(delegates["REPORTER"], delegates'["REPORTER"])
            /\ Range(delegates'["REPORTER"]) \ Range(delegates["REPORTER"])
                  \subseteq Range(call'.args)
            /\ Range(call'.args) \subseteq Range(delegates["REPORTER"])
                  => delegates' = delegates]_vars

\* register(stderr, unique=False) while stderr was a delegate already: it
\* is still the first one, before errors, and was not added again
C21_Witness ==
    /\ call.op = "register" /\ ~call.unique
    /\ call.args = << "stderr" >>
    /\ delegates["REPORTER"] = << "stderr", "errors" >>

\* the arguments of unregister up to the first that is not in ds
RECURSIVE RemovedBeforeFailure(_, _)
RemovedBeforeFailure(args, ds) ==
    IF args = <<>> \/ ~IsIn(Head(args), ds) THEN <<>>
    ELSE << Head(args) >> \o RemovedBeforeFailure(Tail(args), ds)

\* C22: unregister with several arguments removes them one at a time in
\* argument order: when an argument is not a delegate the call raises
\* AssertionError, the arguments before it are removed already and the
\* ones after it are still delegates if they were.
C22_UnregisterNotAtomic ==
    [][\A n \in Nodes :
          (call'.op = "unregister" /\ call'.node = n) =>
              LET gone == RemovedBeforeFailure(call'.args, delegates[n])
              IN  /\ delegates'[n] =
                        SelectSeq(delegates[n], LAMBDA y : y \notin Range(gone))
                  /\ call'.removed = Len(gone)
                  /\ call'.exc = IF Len(gone) = Len(call'.args) THEN "none"
                                 ELSE "AssertionError"]_vars

\* unregister(stderr, stderr2) failed on stderr2 after it had removed stderr
C22_Witness ==
    /\ call.op = "unregister" /\ call.exc = "AssertionError"
    /\ call.args = << "stderr", "stderr2" >>
    /\ call.removed = 1
    /\ delegates["REPORTER"] = << "errors" >>
====
